---- MODULE Spec2Model ----
(***************************************************************************)
(* A model of the data pipeline of the task manager: the reader thread     *)
(* that decodes the backend's line stream into frames                      *)
(* (TaskManagerApp._read_backend), the hand-off of frames to the Tk main   *)
(* loop (root.after), the aggregation of a process frame into groups       *)
(* (ProcessesView.update_data), the classifier and its cache               *)
(* (_classify_process), the window-pid refresh worker (update_window_pids) *)
(* and the row reconciliation (_update_rows).                              *)
(***************************************************************************)
EXTENDS Integers, Sequences, FiniteSets, TLC

\* ------------------------------------------------------------------ bounds

\* Number of lines the backend writes to its stdout in one run.
MaxLines == 5

\* Longest process frame handed to update_data from outside the reader.
MaxFrameLen == 2

\* Largest pid the window tools can report.
MaxPid == 2

\* Refresh worker threads that can be alive at once.
MaxFetchers == 2

\* update_data calls in a run of the processes view that stops short of the
\* cache cleanup.
MaxUpdates == 3

\* The lines the backend writes in the runs that follow the window's close
\* handler against the reader and the periodic callbacks.
MaxCloseLines == 3

\* The most PerformanceView.update calls followed in one run.
MaxTicks == 2

\* ---------------------------------------------------------------- strings

\* Python's str.strip() removes these from both ends of a line.
IsSpace(c) == c \in {" ", "\t", "\n", "\r"}

RECURSIVE LStrip(_)
LStrip(s) ==
    IF Len(s) > 0 /\ IsSpace(SubSeq(s, 1, 1)) THEN LStrip(SubSeq(s, 2, Len(s)))
    ELSE s

RECURSIVE RStrip(_)
RStrip(s) ==
    IF Len(s) > 0 /\ IsSpace(SubSeq(s, Len(s), Len(s)))
    THEN RStrip(SubSeq(s, 1, Len(s) - 1))
    ELSE s

\* line.strip()
Strip(s) == RStrip(LStrip(s))

\* line.startswith(p)
StartsWith(s, p) == Len(s) >= Len(p) /\ SubSeq(s, 1, Len(p)) = p

RECURSIVE SplitFrom(_, _, _)
SplitFrom(s, start, i) ==
    IF i > Len(s) THEN << SubSeq(s, start, Len(s)) >>
    ELSE IF SubSeq(s, i, i) = "|"
         THEN << SubSeq(s, start, i - 1) >> \o SplitFrom(s, i + 1, i + 1)
         ELSE SplitFrom(s, start, i + 1)

\* line.split('|'): the fields between the separators, empty fields kept.
Split(s) == SplitFrom(s, 1, 1)

\* s.find(pat) >= 0, Python's `pat in s`
Contains(s, pat) ==
    \E i \in 0..(Len(s) - Len(pat)) : SubSeq(s, i + 1, i + Len(pat)) = pat

UpperCase == "ABCDEFGHIJKLMNOPQRSTUVWXYZ"
LowerCase == "abcdefghijklmnopqrstuvwxyz"

LowerChar(c) ==
    IF \E i \in 1..26 : SubSeq(UpperCase, i, i) = c
    THEN LET i == CHOOSE j \in 1..26 : SubSeq(UpperCase, j, j) = c
         IN  SubSeq(LowerCase, i, i)
    ELSE c

RECURSIVE Lower(_)
\* name.lower()
Lower(s) ==
    IF Len(s) = 0 THEN s
    ELSE LowerChar(SubSeq(s, 1, 1)) \o Lower(SubSeq(s, 2, Len(s)))

Digits == "0123456789"

DigitVal(c) == (CHOOSE j \in 1..10 : SubSeq(Digits, j, j) = c) - 1

IsDigits(s) ==
    /\ Len(s) > 0
    /\ \A i \in 1..Len(s) : \E j \in 1..10 : SubSeq(Digits, j, j) = SubSeq(s, i, i)

RECURSIVE ParseDigits(_, _)
ParseDigits(s, acc) ==
    IF Len(s) = 0 THEN acc
    ELSE ParseDigits(SubSeq(s, 2, Len(s)), 10 * acc + DigitVal(SubSeq(s, 1, 1)))

\* int(s) of a decimal digit string
ParseInt(s) == ParseDigits(s, 0)

\* float(s) of "<digits>" or "<digits>.<digit>", in tenths: the model keeps
\* cpu percentages as integers counting tenths of a percent.
ParseFloat(s) ==
    IF Len(s) >= 3 /\ SubSeq(s, Len(s) - 1, Len(s) - 1) = "."
    THEN 10 * ParseInt(SubSeq(s, 1, Len(s) - 2)) + DigitVal(SubSeq(s, Len(s), Len(s)))
    ELSE 10 * ParseInt(s)

\* Whether int(s) and float(s) return rather than raise ValueError, for the
\* field strings of the lines below: a digit string, a digit string with a
\* fraction, or no number at all.
IsInt(s) == IsDigits(s)
IsFloat(s) ==
    \/ IsDigits(s)
    \/ \E i \in 2..(Len(s) - 1) :
          /\ SubSeq(s, i, i) = "."
          /\ IsDigits(SubSeq(s, 1, i - 1))
          /\ IsDigits(SubSeq(s, i + 1, Len(s)))

\* dict helpers: a dict is a function, d[k] = v is Put and {} is EmptyDict.
EmptyDict == [k \in {} |-> 0]
Put(d, k, v) == [x \in (DOMAIN d) \cup {k} |-> IF x = k THEN v ELSE d[x]]

\* ----------------------------------------------------------------- input

\* Lines the backend can write (each ends with the newline the reader
\* strips): process records, GPU records, the sentinels, a blank line and
\* lines of a wrong field count.
ProcLines == { "1|foo|S|0.5|1024|1\n", "2|foo|R|1.5|2048|3\n" }
GpuLines == { "GPU|0|RTX|45|2048|8192|65|120|250\n" }
SentinelLines == { "END\n", "GPU_START\n", "GPU_END\n" }
JunkLines == { "\n", "abc\n" }
Lines == ProcLines \cup GpuLines \cup SentinelLines \cup JunkLines

\* The process records of the frames handed to update_data directly.
ViewLines == ProcLines \cup { "2|bash|S|0.1|512|1\n" }

\* Records of six fields whose pid, cpu or mem is not a number.
ErrLines == { "x|foo|S|0.5|1024|1\n", "1|foo|S|y|1024|1\n", "1|foo|S|0.5|z|1\n" }

\* line.strip() and line.split('|') of every line, computed once.
Stripped == [l \in Lines \cup ViewLines \cup ErrLines |-> Strip(l)]
Fields == [l \in Lines \cup ViewLines \cup ErrLines |-> Split(Strip(l))]

\* The 6-field samples of the process records.
Samples == { Fields[l] : l \in ViewLines }

\* Process records whose names take each branch of _classify_process: an
\* exact BLACKLIST name in upper case, a PARENT_BLACKLIST name, a name with a
\* helper token and an application pattern, a name with an application
\* pattern only, and a name none of the lists knows.
ClassifyLines == {
    "1|Xorg|S|0.5|1024|1\n", "2|bash|S|0.5|1024|1\n",
    "1|Chrome Helper|S|0.5|1024|1\n", "2|Chrome Helper|S|0.5|1024|1\n",
    "1|Firefox|S|0.5|1024|1\n", "2|Firefox|S|0.5|1024|1\n",
    "1|foo|S|0.5|1024|1\n", "2|foo|S|0.5|1024|1\n" }

\* Their 6-field samples, and the frames of one such sample.
ClassifySamples == { Split(Strip(l)) : l \in ClassifyLines }
ClassifyFrames == { << s >> : s \in ClassifySamples }

\* int(pid), float(cpu) and int(mem) of every sample, computed once.
Parsed == [s \in Samples \cup ClassifySamples |->
            [pid |-> ParseInt(s[1]), cpu |-> ParseFloat(s[4]), mem |-> ParseInt(s[5])]]

\* The process frames the reader can emit: non-empty sequences of samples.
Frames == UNION { [1..n -> Samples] : n \in 1..MaxFrameLen }

\* Pids the window tools can report.
Pids == 1..MaxPid

\* ------------------------------------------------------------ classifier

APP_PATTERNS == {
    "chrome", "firefox", "brave", "edge", "opera", "vivaldi", "chromium",
    "code", "visual studio", "pycharm", "intellij", "eclipse", "sublime",
    "atom", "cursor", "gedit", "kate", "neovim", "vim",
    "slack", "discord", "teams", "zoom", "skype", "telegram", "signal",
    "spotify", "vlc", "mpv", "rhythmbox", "clementine", "audacity",
    "gimp", "inkscape", "blender", "krita", "darktable",
    "libreoffice", "writer", "calc", "impress",
    "dolphin", "nautilus", "thunar", "nemo", "pcmanfm",
    "konsole", "gnome-terminal", "tilix", "alacritty", "kitty", "wezterm",
    "thunderbird", "evolution", "geary",
    "docker", "postman", "insomnia", "dbeaver",
    "obs", "kdenlive", "handbrake", "shotcut" }

BLACKLIST == {
    "systemd", "dbus-daemon", "systemd-resolved", "systemd-timesyncd",
    "systemd-logind", "systemd-journald", "systemd-udevd",
    "xorg", "xwayland", "kwin_x11", "kwin_wayland",
    "mutter", "gnome-shell", "plasmashell",
    "pulseaudio", "pipewire", "pipewire-pulse", "wireplumber",
    "kded5", "kded6", "ksmserver", "kglobalaccel5",
    "gvfsd", "gvfsd-fuse", "gvfsd-metadata",
    "at-spi-bus-launcher", "at-spi2-registryd",
    "ibus-daemon", "ibus-portal", "fcitx5",
    "xdg-desktop-portal", "xdg-desktop-portal-gtk", "xdg-desktop-portal-kde",
    "polkit-kde-authentication-agent-1", "polkitd",
    "chrome_crashpad_handler", "crashpad_handler" }

PARENT_BLACKLIST == {
    "bash", "zsh", "sh", "fish", "dash", "ksh",
    "bwrap", "snap-confine", "firejail",
    "python", "python3", "python2", "perl", "ruby", "node",
    "systemd", "init" }

HELPER_TOKENS == { "crashpad", "helper", "zygote", "nacl_helper" }

\* What psutil.Process(pid).uids() can come to: the session's uid, another
\* uid, or an exception because the process has exited.
UidOutcomes == { "same", "other", "gone" }

\* The tests _classify_process makes on a name alone.
InBlacklist(name) == Lower(name) \in BLACKLIST \/ Lower(name) \in PARENT_BLACKLIST
HasHelperToken(name) == \E bl \in HELPER_TOKENS : Contains(Lower(name), bl)
HasAppPattern(name) == \E pat \in APP_PATTERNS : Contains(Lower(name), pat)

\* The three tests for every name of the samples, computed once.
NameTests == [name \in { s[2] : s \in Samples \cup ClassifySamples } |->
                [blacklist |-> InBlacklist(name),
                 helper |-> HasHelperToken(name),
                 app |-> HasAppPattern(name)]]

\* A classifier that looks at window_pids before the name.
ClassifyWindowFirst(wp, pid, name, uid) ==
    IF pid \in wp THEN TRUE
    ELSE IF NameTests[name].blacklist THEN FALSE
    ELSE IF NameTests[name].helper THEN FALSE
    ELSE IF NameTests[name].app THEN TRUE
    ELSE FALSE

\* The steps of _classify_process below its cache check; the value returned
\* (and cached) for a pid that has no cache entry.
ClassifyUncached(wp, pid, name, uid) ==
    IF NameTests[name].blacklist THEN FALSE
    ELSE IF NameTests[name].helper THEN FALSE
    ELSE IF pid \in wp THEN TRUE
    ELSE IF NameTests[name].app THEN TRUE
    ELSE IF uid # "same" THEN FALSE
    ELSE FALSE

\* Whether _classify_process(pid, name) comes to its last step, the lookup of
\* the process's owning uid: no cache entry and none of the four tests
\* before it decided.
UidLookedUp(cache, wp, pid, name) ==
    /\ pid \notin DOMAIN cache
    /\ ~NameTests[name].blacklist
    /\ ~NameTests[name].helper
    /\ pid \notin wp
    /\ ~NameTests[name].app

\* A classifier that caches nothing when the uid lookup decides.
ClassifyNoFallbackWrite(cache, wp, pid, name, uid) ==
    IF pid \in DOMAIN cache
    THEN IF ~cache[pid] /\ pid \in wp
         THEN [ret |-> TRUE, cache |-> Put(cache, pid, TRUE)]
         ELSE [ret |-> cache[pid], cache |-> cache]
    ELSE IF UidLookedUp(cache, wp, pid, name)
         THEN [ret |-> FALSE, cache |-> cache]
         ELSE LET v == ClassifyUncached(wp, pid, name, uid)
              IN  [ret |-> v, cache |-> Put(cache, pid, v)]

\* A classifier whose cached True follows window_pids.
ClassifyRecheck(cache, wp, pid, name, uid) ==
    IF pid \in DOMAIN cache
    THEN [ret |-> pid \in wp, cache |-> Put(cache, pid, pid \in wp)]
    ELSE LET v == ClassifyUncached(wp, pid, name, uid)
         IN  [ret |-> v, cache |-> Put(cache, pid, v)]

\* A classifier that upgrades every cached False, whatever window_pids holds.
ClassifyUpgradeAny(cache, wp, pid, name, uid) ==
    IF pid \in DOMAIN cache
    THEN [ret |-> TRUE, cache |-> Put(cache, pid, TRUE)]
    ELSE LET v == ClassifyUncached(wp, pid, name, uid)
         IN  [ret |-> v, cache |-> Put(cache, pid, v)]

\* _classify_process(pid, name) on the cache `cache` and the window pids
\* `wp`: the value returned and the cache afterwards.
Classify(cache, wp, pid, name, uid) ==
    IF pid \in DOMAIN cache
    THEN IF ~cache[pid] /\ pid \in wp
         THEN [ret |-> TRUE, cache |-> Put(cache, pid, TRUE)]
         ELSE [ret |-> cache[pid], cache |-> cache]
    ELSE LET v == ClassifyUncached(wp, pid, name, uid)
         IN  [ret |-> v, cache |-> Put(cache, pid, v)]

\* ------------------------------------------------------------ aggregator

\* Every CLEANUP_EVERY-th update_data purges the classification cache.
CLEANUP_EVERY == 30

\* A cleanup that drops every entry.
CacheCleanupAll(counter, cache, data) ==
    IF counter >= CLEANUP_EVERY
    THEN [counter |-> 0, cache |-> EmptyDict]
    ELSE [counter |-> counter, cache |-> cache]

\* Whether int(pid), float(cpu) and int(mem) all return for a sample, and
\* whether int(d[0]) returns for every sample of a frame.
IsNumeric(sample) == IsInt(sample[1]) /\ IsFloat(sample[4]) /\ IsInt(sample[5])
PidsNumeric(data) == \A i \in 1..Len(data) : IsInt(data[i][1])

\* IsNumeric of every sample, computed once.
ErrSamples == { Fields[l] : l \in ErrLines }
Numeric == [sample \in Samples \cup ClassifySamples \cup ErrSamples |-> IsNumeric(sample)]

\* The cache cleanup at the top of update_data, for the counter already
\* incremented: the counter and the cache afterwards.
CacheCleanup(counter, cache, data) ==
    IF counter >= CLEANUP_EVERY
    THEN LET current_pids == { Parsed[data[i]].pid : i \in 1..Len(data) }
         IN  [counter |-> 0,
              cache |-> [pid \in (DOMAIN cache) \cap current_pids |-> cache[pid]]]
    ELSE [counter |-> counter, cache |-> cache]

\* A group as update_data creates it for a name it has not seen in target.
NewGroup(state) ==
    [pids |-> << >>, cpu |-> 0, mem |-> 0, state |-> state, details |-> EmptyDict]

\* cpu = cpu_val: the last sample's value in place of the sum.
AddCpuLast(cpu, cpu_val) == cpu_val

\* cpu += cpu_val
AddCpu(cpu, cpu_val) == cpu + cpu_val

\* A sample recorded in the details only, its pid not appended.
AddDetailOnly(g, int_pid, cpu_val, mem_mb) ==
    [g EXCEPT !.details = Put(@, int_pid, [cpu |-> cpu_val, mem |-> mem_mb])]

\* the pid list and the details of a group after one more sample
AddPid(g, int_pid, cpu_val, mem_mb) ==
    [g EXCEPT !.pids = Append(@, int_pid),
              !.details = Put(@, int_pid, [cpu |-> cpu_val, mem |-> mem_mb])]

\* The body of update_data's loop for one sample, below the classification:
\* target (apps or background) with the sample folded in. cpu counts tenths
\* of a percent and mem counts 1/1024 MiB, so int(mem) / 1024 is int(mem).
FoldSample(target, sample) ==
    LET int_pid == Parsed[sample].pid
        name == sample[2]
        cpu_val == Parsed[sample].cpu
        mem_mb == Parsed[sample].mem
        g0 == IF name \in DOMAIN target THEN target[name] ELSE NewGroup(sample[3])
        g1 == AddPid(g0, int_pid, cpu_val, mem_mb)
    IN  Put(target, name, [g1 EXCEPT !.cpu = AddCpu(@, cpu_val), !.mem = @ + mem_mb])

\* {**apps, **background}
MergeDicts(a, b) ==
    [n \in (DOMAIN a) \cup (DOMAIN b) |-> IF n \in DOMAIN b THEN b[n] ELSE a[n]]

\* ------------------------------------------------------------ reconciler

\* round(mem, 1) in tenths of a MiB, for mem counted in 1/1024 MiB (a value
\* a float holds exactly, so that a tie is rounded to the even tenth)
RoundMem(mem) ==
    LET q == (10 * mem) \div 1024
        r == (10 * mem) % 1024
    IN  IF r > 512 \/ (r = 512 /\ q % 2 = 1) THEN q + 1 ELSE q

\* ProcessRow(...) for a group
NewRow(info) ==
    [pids |-> info.pids, cpu |-> info.cpu, mem |-> info.mem, state |-> info.state,
     process_details |-> info.details, prev_cpu |-> -1, prev_mem |-> -1]

\* An update that merges the new pids and details into those the row has.
RowUpdateMerge(row, info) ==
    [row EXCEPT !.state = info.state,
                !.pids = @ \o info.pids,
                !.process_details =
                    [pid \in DOMAIN @ \cup DOMAIN info.details |->
                        IF pid \in DOMAIN info.details THEN info.details[pid] ELSE @[pid]],
                !.cpu = info.cpu,
                !.prev_cpu = info.cpu,
                !.mem = info.mem,
                !.prev_mem = info.mem]

\* ProcessRow.update_data(cpu, mem, state, pids, process_details); -1 stands
\* for the None of _prev_cpu and _prev_mem.
RowUpdateData(row, info) ==
    [row EXCEPT !.state = info.state,
                !.pids = info.pids,
                !.process_details = IF DOMAIN info.details # {} THEN info.details ELSE @,
                !.cpu = IF info.cpu # row.prev_cpu THEN info.cpu ELSE @,
                !.prev_cpu = info.cpu,
                !.mem = IF RoundMem(info.mem) # row.prev_mem THEN info.mem ELSE @,
                !.prev_mem = RoundMem(info.mem)]

\* Keys that give a name one row only, the app one when it has both.
CurrentKeysOnePerName(a, b) ==
    { << "app", n >> : n \in DOMAIN a } \cup { << "bg", n >> : n \in DOMAIN b \ DOMAIN a }

\* current_keys of _update_rows
CurrentKeys(a, b) ==
    { << "app", n >> : n \in DOMAIN a } \cup { << "bg", n >> : n \in DOMAIN b }

\* Reconciliations that rebuild: every row destroyed, or every key given a
\* new row.
ToRemoveAll(current_keys, existing_keys) == existing_keys
ToAddAll(current_keys, existing_keys) == current_keys

\* A reconciliation that never destroys a row.
ToRemoveNone(current_keys, existing_keys) == {}

\* to_add, to_remove and to_update of _update_rows
ToAdd(current_keys, existing_keys) == current_keys \ existing_keys
ToRemove(current_keys, existing_keys) == existing_keys \ current_keys
ToUpdate(current_keys, existing_keys) == current_keys \cap existing_keys

\* _update_rows(apps, background) on the rows r: the rows afterwards, and the
\* keys whose row was destroyed, updated in place and created.
UpdateRows(r, a, b) ==
    LET current_keys == CurrentKeys(a, b)
        existing_keys == DOMAIN r
        to_add == ToAdd(current_keys, existing_keys)
        to_remove == ToRemove(current_keys, existing_keys)
        to_update == ToUpdate(current_keys, existing_keys)
        info(key) == IF key[1] = "app" THEN a[key[2]] ELSE b[key[2]]
    IN  [rows |-> [key \in (existing_keys \ to_remove) \cup to_add |->
                     IF key \in to_add THEN NewRow(info(key))
                     ELSE IF key \in to_update THEN RowUpdateData(r[key], info(key))
                     ELSE r[key]],
         destroyed |-> to_remove,
         updated |-> to_update,
         created |-> to_add]

\* selected_row as a value: the key the row it refers to was created for,
\* whether that row has been destroyed, and for a destroyed row the pids it
\* held. NoRow is None.
NoRow == [key |-> << >>, destroyed |-> FALSE, pids |-> << >>]
RowRef(key) == [key |-> key, destroyed |-> FALSE, pids |-> << >>]

\* selected_row after _update_rows has destroyed the rows of to_remove, r
\* being the rows before: the attribute is not assigned, so it goes on
\* referring to its row, destroyed or not.
SelectedAfterRemove(sel, r, to_remove) ==
    IF sel # NoRow /\ ~sel.destroyed /\ sel.key \in to_remove
    THEN [sel EXCEPT !.destroyed = TRUE, !.pids = r[sel.key].pids]
    ELSE sel

\* An update_data that reconciles what it has aggregated when it raises.
RowsReconciledAnyway(r, a, b) == UpdateRows(r, a, b).rows

\* rows after an update_data call that raised in its loop: _update_rows was
\* not reached.
RowsAfterError(r, a, b) == r

\* --------------------------------------------------------------- decoder

\* The decoder's local state as one value.
Decoder(f, g, b) == [frame |-> f, gpu_frame |-> g, in_gpu_block |-> b, out |-> << >>]

\* What GPU_END leaves in gpu_frame: the list is copied for the callback and
\* is not cleared (only GPU_START clears it).
GpuFrameAfterEnd(g) == g

\* An END that does not clear the buffer.
FrameKept(f) == f

\* What END leaves in frame after a frame was scheduled: frame.clear().
FrameAfterEnd(f) == << >>

\* The argument of the scheduled callback: frame.copy() / gpu_frame.copy().
CopyOf(f) == f

\* A field count test that lets short lines through.
FieldCountAtMost(parts, n) == Len(parts) <= n

\* len(parts) == n
FieldCount(parts, n) == Len(parts) = n

\* A hand-off that runs the newest callback first.
ScheduleFirst(q, cbs) == cbs \o q

\* root.after(0, callback, arg) on the queue q of callbacks that are due:
\* Tk runs callbacks that are due at the same time in the order they were
\* scheduled.
Schedule(q, cbs) == q \o cbs

\* One iteration of the loop body of _read_backend below the running check:
\* the decoder after the raw line l, and in out the callback it scheduled.
DecodeLine(d, l) ==
    LET s == Stripped[l]
        quiet == [d EXCEPT !.out = << >>]
    IN  IF Len(s) = 0 THEN quiet
        ELSE IF s = "GPU_START"
             THEN [quiet EXCEPT !.in_gpu_block = TRUE, !.gpu_frame = << >>]
        ELSE IF s = "GPU_END"
             THEN IF d.gpu_frame # << >>
                  THEN [quiet EXCEPT !.in_gpu_block = FALSE,
                                     !.gpu_frame = GpuFrameAfterEnd(d.gpu_frame),
                                     !.out = << [fn |-> "_update_gpu",
                                                 arg |-> CopyOf(d.gpu_frame)] >>]
                  ELSE [quiet EXCEPT !.in_gpu_block = FALSE]
        ELSE IF d.in_gpu_block
             THEN IF StartsWith(s, "GPU|") /\ FieldCount(Fields[l], 9)
                  THEN [quiet EXCEPT !.gpu_frame = Append(d.gpu_frame, Tail(Fields[l]))]
                  ELSE quiet
        ELSE IF s = "END"
             THEN IF d.frame # << >>
                  THEN [quiet EXCEPT !.frame = FrameAfterEnd(d.frame),
                                     !.out = << [fn |-> "_update_processes",
                                                 arg |-> CopyOf(d.frame)] >>]
                  ELSE quiet
        ELSE IF FieldCount(Fields[l], 6)
             THEN [quiet EXCEPT !.frame = Append(d.frame, Fields[l])]
             ELSE quiet

RECURSIVE DecodeFrom(_, _, _)
\* The callbacks the reader schedules for the lines of `lines` from the i-th
\* on, its decoder being d.
DecodeFrom(d, lines, i) ==
    IF i > Len(lines) THEN << >>
    ELSE LET n == DecodeLine(d, lines[i])
         IN  n.out \o DecodeFrom(n, lines, i + 1)

\* Streams of one frame: a well-formed record, a record that is not numeric,
\* or the first followed by the second, and END.
ErrStreams ==
    { << g, "END\n" >> : g \in ProcLines } \cup
    { << b, "END\n" >> : b \in ErrLines } \cup
    { << g, b, "END\n" >> : g \in ProcLines, b \in ErrLines }

\* The frames the reader hands to update_data for these streams.
ErrFrames ==
    { DecodeFrom(Decoder(<< >>, << >>, FALSE), st, 1)[1].arg : st \in ErrStreams }

\* ----------------------------------------------------------------- state

VARIABLES
    running,        \* TaskManagerApp.running
    proc,           \* the backend process: "running", "exited", "killed"
    ui,             \* the Tk main thread: "idle", "update_data", "closing", "gone"
    after_queue,    \* callbacks scheduled with root.after(0, ...), oldest first
    stdout,         \* number of lines the backend may still write
    reader,         \* position of the reader thread: "next", "line", "exited"
    line,           \* the raw line the reader thread holds
    frame,          \* _read_backend's local frame
    gpu_frame,      \* _read_backend's local gpu_frame
    in_gpu_block,   \* _read_backend's local in_gpu_block
    process_data,   \* ProcessesView.process_data
    idx,            \* update_data's position in its loop over data
    apps,           \* update_data's local apps
    background,     \* update_data's local background
    process_groups, \* ProcessesView.process_groups
    classification_cache,       \* ProcessesView.classification_cache
    rows,                       \* ProcessesView.rows
    cache_cleanup_counter,      \* ProcessesView._cache_cleanup_counter
    window_pids,                \* ProcessesView.window_pids
    window_pid_thread_running,  \* ProcessesView._window_pid_thread_running
    fetchers,       \* the live _fetch_pids threads, each by its position
    fetch_local,    \* the locals of each live _fetch_pids thread
    gpu_data,       \* PerformanceView.gpu_data
    input,          \* history: the lines the reader has run its loop body on
                    \* to the end
    emitted,        \* history: the callbacks the reader has scheduled, each with
                    \* the buffer it was scheduled for
    delivered,      \* history: the callbacks the main loop has run
    classified,     \* history: _classify_process's result for each sample folded
    last_call,      \* history: the last _classify_process call
    ever_app,       \* history: pids _classify_process has returned True for
    app_kept,       \* history: the same, less the pids purged from the cache since
    last_refresh,   \* history: how the last update_window_pids call ended
    last_result,    \* history: the complete result of the refresh that
                    \* finished last
    rows_created,   \* history: keys the last _update_rows created a row for
    rows_destroyed, \* history: keys whose row the last _update_rows destroyed
    rows_updated,   \* history: keys whose row the last _update_rows updated
    prev_row_keys,  \* history: the keys of rows before the last _update_rows
    prev_group_keys,\* history: the group keys of the frame before the last one
    prev_group_pids,\* history: the pids of each group of the frame before
    update_calls,   \* history: the number of update_data calls so far, modulo
                    \* CLEANUP_EVERY
    update_errors,  \* history: the number of update_data calls that raised
    selected_row,   \* ProcessesView.selected_row: the row object it refers to
    marked,         \* the keys of the rows of `rows` whose selected flag is set
    end_btn,        \* the state of the End task button
    last_click,     \* history: the key of the row last clicked and whether
                    \* _on_row_select raised
    last_kill,      \* history: the last End task or Force kill that sent signals
    wp_changed,     \* history: whether window_pids has been given another
                    \* value since the last _classify_process call
    perf_updates,   \* the number of PerformanceView.update calls so far
    late            \* history: what was done while the running flag was clear

appVars == << running, proc >>
tkVars == << ui, after_queue, delivered >>
readerVars == << stdout, reader, line, frame, gpu_frame, in_gpu_block, input, emitted >>
frameVars == << process_data, idx, apps, background, classified, prev_group_keys,
               prev_group_pids, update_calls, update_errors >>
viewVars == << process_groups, rows, cache_cleanup_counter, gpu_data >>
cacheVars == << classification_cache, last_call, ever_app, app_kept >>
refreshVars == << window_pids, window_pid_thread_running, fetchers, fetch_local,
                 last_refresh, last_result >>
rowHist == << rows_created, rows_destroyed, rows_updated, prev_row_keys >>
closeHist == << perf_updates, late >>
selVars == << selected_row, marked, end_btn, last_click, last_kill >>

vars == << appVars, tkVars, readerVars, frameVars, viewVars, cacheVars,
           refreshVars, rowHist, closeHist, selVars, wp_changed >>

\* The locals of a _fetch_pids thread that has run no tool yet: all is the
\* pids of the tool's output, left those of its lines the loop has not
\* reached, pids the local set `pids`; failed records that both tools failed
\* and old the window_pids the thread's assignment replaced. bulk is how the
\* wmctrl query ended ("none" before it), pairs the pids of the lines it
\* printed and fallback whether the thread went on to xprop.
NoLocal == [all |-> {}, left |-> {}, pids |-> {}, failed |-> FALSE, old |-> {},
            bulk |-> "none", pairs |-> {}, fallback |-> FALSE]

\* No _classify_process call yet. Of a call, cached is the pid's cache entry
\* when the call was made ("none" for no entry), in_wp whether window_pids
\* held the pid then, and uid the outcome of the uid lookup the call made
\* ("none" when it made none).
NoCall == [pid |-> 0, name |-> "", ret |-> FALSE, cached |-> "none", in_wp |-> FALSE,
           uid |-> "none", was_app |-> FALSE, was_kept |-> FALSE]

\* Nothing done yet with the running flag clear: held records whether the
\* reader held a line when _on_close cleared the flag, frames the callbacks
\* the reader has scheduled since, refreshes the _fetch_pids threads started
\* since and perf the PerformanceView.update calls made since; signals is
\* the signals _on_close has sent to the backend, each with the value the
\* running flag had then, and wait how proc.wait(timeout=2) ended.
NoLate == [held |-> FALSE, frames |-> 0, refreshes |-> 0, perf |-> 0,
           signals |-> << >>, wait |-> "none"]

\* No row clicked yet, and no signal sent by End task or Force kill yet.
\* last_kill holds the handler, the key of the row it took the pids from,
\* the pids it signalled, those of them it sent SIGKILL after SIGTERM, and
\* whether the row was one of `rows` at the time.
NoClick == [key |-> << >>, raised |-> FALSE]
NoKill == [fn |-> "none", key |-> << >>, pids |-> {}, again |-> {}, in_rows |-> FALSE]

\* The state when TaskManagerApp.__init__ returns: the backend and the reader
\* thread are started, and _start_updates has called update_window_pids and
\* _update_performance once each; the backend writes `lines` lines.
InitWith(lines) ==
    /\ running = TRUE
    /\ proc = "running"
    /\ ui = "idle"
    /\ after_queue = << >>
    /\ stdout = lines
    /\ reader = "next"
    /\ line = ""
    /\ frame = << >>
    /\ gpu_frame = << >>
    /\ in_gpu_block = FALSE
    /\ process_data = << >>
    /\ idx = 1
    /\ apps = EmptyDict
    /\ background = EmptyDict
    /\ process_groups = EmptyDict
    /\ classification_cache = EmptyDict
    /\ rows = EmptyDict
    /\ cache_cleanup_counter = 0
    /\ window_pids = {}
    /\ window_pid_thread_running = TRUE
    /\ fetchers = << "wmctrl" >>
    /\ fetch_local = << NoLocal >>
    /\ last_result = {}
    /\ gpu_data = << >>
    /\ input = << >>
    /\ emitted = << >>
    /\ delivered = << >>
    /\ classified = << >>
    /\ last_call = NoCall
    /\ ever_app = {}
    /\ app_kept = {}
    /\ last_refresh = "started"
    /\ rows_created = {}
    /\ rows_destroyed = {}
    /\ rows_updated = {}
    /\ prev_row_keys = {}
    /\ prev_group_keys = {}
    /\ prev_group_pids = EmptyDict
    /\ update_calls = 0
    /\ update_errors = 0
    /\ selected_row = NoRow
    /\ marked = {}
    /\ end_btn = "disabled"
    /\ last_click = NoClick
    /\ last_kill = NoKill
    /\ wp_changed = FALSE
    /\ perf_updates = 1
    /\ late = NoLate

\* The construction with a backend that writes MaxLines lines.
Init == InitWith(MaxLines)

\* The construction with a backend that writes MaxCloseLines lines.
CloseInit == InitWith(MaxCloseLines)

\* ---------------------------------------------------------- reader thread

\* A reader loop without the test of the running flag.
ReaderGoesOnAlways(flag) == TRUE

\* The test at the top of the reader's loop: `if not self.running: break`.
ReaderGoesOn(flag) == flag

\* `for line in self.proc.stdout` yields the next line, and the loop breaks
\* at its top when the running flag is clear.
ReadNext ==
    /\ reader = "next"
    /\ stdout > 0
    /\ stdout' = stdout - 1
    /\ \E l \in Lines :
         IF ReaderGoesOn(running)
         THEN reader' = "line" /\ line' = l
         ELSE reader' = "exited" /\ line' = ""
    /\ UNCHANGED << frame, gpu_frame, in_gpu_block, input, emitted >>
    /\ UNCHANGED << appVars, tkVars, frameVars, viewVars, cacheVars, refreshVars, rowHist, closeHist, selVars, wp_changed >>

\* The loop body for the line held. root.after raises once the root window
\* is destroyed; the exception ends the thread at that call.
ReadLine ==
    /\ reader = "line"
    /\ LET d == DecodeLine(Decoder(frame, gpu_frame, in_gpu_block), line)
       IN  IF d.out # << >> /\ ui = "gone"
           THEN /\ reader' = "exited"
                /\ in_gpu_block' = d.in_gpu_block
                /\ UNCHANGED << frame, gpu_frame, after_queue, emitted, input >>
           ELSE /\ reader' = "next"
                /\ frame' = d.frame
                /\ gpu_frame' = d.gpu_frame
                /\ in_gpu_block' = d.in_gpu_block
                /\ after_queue' = Schedule(after_queue, d.out)
                /\ emitted' = emitted \o
                      [i \in 1..Len(d.out) |->
                         [fn |-> d.out[i].fn,
                          arg |-> IF d.out[i].fn = "_update_gpu" THEN gpu_frame ELSE frame]]
                /\ input' = Append(input, line)
    /\ late' = IF ~running /\ ui # "gone"
               THEN [late EXCEPT !.frames = @ + Len(DecodeLine(Decoder(frame, gpu_frame,
                                                      in_gpu_block), line).out)]
               ELSE late
    /\ line' = ""
    /\ UNCHANGED << stdout, ui, delivered, perf_updates >>
    /\ UNCHANGED << appVars, frameVars, viewVars, cacheVars, refreshVars, rowHist, selVars, wp_changed >>

\* End of the stream: the backend has closed its stdout and the loop ends.
ReadEOF ==
    /\ reader = "next"
    /\ reader' = "exited"
    /\ UNCHANGED << stdout, line, frame, gpu_frame, in_gpu_block, input, emitted >>
    /\ UNCHANGED << appVars, tkVars, frameVars, viewVars, cacheVars, refreshVars, rowHist, closeHist, selVars, wp_changed >>

\* ------------------------------------------------------------ update_data

\* update_data(data) up to its loop: the cache cleanup and the empty dicts.
\* When the cleanup is due and a pid of the frame is not a number, int(d[0])
\* raises after the counter was reset and update_data ends there.
UpdateDataBegin(data) ==
    LET raises == cache_cleanup_counter + 1 >= CLEANUP_EVERY /\ ~PidsNumeric(data)
        c == IF raises
             THEN [counter |-> 0, cache |-> classification_cache]
             ELSE CacheCleanup(cache_cleanup_counter + 1, classification_cache, data)
    IN  /\ process_data' = data
        /\ cache_cleanup_counter' = c.counter
        /\ classification_cache' = c.cache
        /\ app_kept' = app_kept \cap DOMAIN c.cache
        /\ update_errors' = IF raises THEN update_errors + 1 ELSE update_errors
        /\ apps' = EmptyDict
        /\ background' = EmptyDict
        /\ idx' = 1
        /\ classified' = << >>
        /\ prev_group_keys' = CurrentKeys(apps, background)
        /\ prev_group_pids' = [key \in CurrentKeys(apps, background) |->
                                 IF key[1] = "app" THEN apps[key[2]].pids
                                                   ELSE background[key[2]].pids]
        /\ update_calls' = (update_calls + 1) % CLEANUP_EVERY
        /\ ui' = IF raises THEN "idle" ELSE "update_data"
        /\ UNCHANGED << process_groups, rows, gpu_data, last_call, ever_app, rowHist, closeHist, selVars, wp_changed >>

\* One iteration of update_data's loop and, after the last one, the rest of
\* update_data: _update_rows and the new process_groups. The owning uid has
\* an outcome only when _classify_process comes to look it up.
UpdateDataFold ==
    /\ ui = "update_data"
    /\ Numeric[process_data[idx]]
    /\ \E uid \in IF UidLookedUp(classification_cache, window_pids,
                                 Parsed[process_data[idx]].pid, process_data[idx][2])
                  THEN UidOutcomes ELSE {"none"} :
        LET sample == process_data[idx]
            int_pid == Parsed[sample].pid
            c == Classify(classification_cache, window_pids, int_pid, sample[2], uid)
            a == IF c.ret THEN FoldSample(apps, sample) ELSE apps
            b == IF c.ret THEN background ELSE FoldSample(background, sample)
            r == UpdateRows(rows, a, b)
        IN  /\ classification_cache' = c.cache
            /\ classified' = Append(classified, c.ret)
            /\ last_call' = [pid |-> int_pid, name |-> sample[2], ret |-> c.ret,
                             cached |-> IF int_pid \notin DOMAIN classification_cache
                                        THEN "none"
                                        ELSE IF classification_cache[int_pid]
                                             THEN "true" ELSE "false",
                             in_wp |-> int_pid \in window_pids,
                             uid |-> IF UidLookedUp(classification_cache, window_pids,
                                                    int_pid, sample[2])
                                     THEN uid ELSE "none",
                             was_app |-> int_pid \in ever_app,
                             was_kept |-> int_pid \in app_kept]
            /\ ever_app' = IF c.ret THEN ever_app \cup {int_pid} ELSE ever_app
            /\ app_kept' = IF c.ret THEN app_kept \cup {int_pid} ELSE app_kept
            /\ apps' = a
            /\ background' = b
            /\ idx' = idx + 1
            /\ IF idx = Len(process_data)
               THEN /\ rows' = r.rows
                    /\ rows_created' = r.created
                    /\ rows_destroyed' = r.destroyed
                    /\ rows_updated' = r.updated
                    /\ prev_row_keys' = DOMAIN rows
                    /\ process_groups' = MergeDicts(a, b)
                    /\ selected_row' = SelectedAfterRemove(selected_row, rows, r.destroyed)
                    /\ marked' = marked \ r.destroyed
                    /\ ui' = "idle"
               ELSE UNCHANGED << rows, rowHist, process_groups, ui, selected_row, marked >>
    /\ UNCHANGED << process_data, prev_group_keys, prev_group_pids, update_calls,
                    update_errors >>
    /\ UNCHANGED << cache_cleanup_counter, gpu_data >>
    /\ UNCHANGED << after_queue, delivered, appVars, readerVars, refreshVars, closeHist >>
    /\ UNCHANGED << end_btn, last_click, last_kill >>
    /\ wp_changed' = FALSE

\* An iteration of update_data's loop on a sample whose pid, cpu or mem is
\* not a number: int() or float() raises ValueError before the sample is
\* classified, update_data ends without _update_rows, and Tk reports the
\* exception of the callback and goes on.
UpdateDataAbort ==
    /\ ui = "update_data"
    /\ ~Numeric[process_data[idx]]
    /\ ui' = "idle"
    /\ update_errors' = update_errors + 1
    /\ rows' = RowsAfterError(rows, apps, background)
    /\ UNCHANGED << process_data, idx, apps, background, classified, prev_group_keys,
                    prev_group_pids, update_calls >>
    /\ UNCHANGED << process_groups, cache_cleanup_counter, gpu_data >>
    /\ UNCHANGED << after_queue, delivered, appVars, readerVars, cacheVars, refreshVars,
                    rowHist, closeHist, selVars, wp_changed >>

\* ---------------------------------------------------------- Tk main loop

\* The main loop runs the oldest root.after(0, ...) callback:
\* _update_processes(data), which calls update_data(data).
DispatchProcesses ==
    /\ ui = "idle"
    /\ after_queue # << >>
    /\ Head(after_queue).fn = "_update_processes"
    /\ UpdateDataBegin(Head(after_queue).arg)
    /\ after_queue' = Tail(after_queue)
    /\ delivered' = Append(delivered, Head(after_queue))
    /\ UNCHANGED << appVars, readerVars, refreshVars >>

\* The main loop runs the oldest callback: _update_gpu(gpu_data), which calls
\* update_gpu_data(gpu_data).
DispatchGpu ==
    /\ ui = "idle"
    /\ after_queue # << >>
    /\ Head(after_queue).fn = "_update_gpu"
    /\ gpu_data' = Head(after_queue).arg
    /\ after_queue' = Tail(after_queue)
    /\ delivered' = Append(delivered, Head(after_queue))
    /\ UNCHANGED << ui, process_groups, rows, cache_cleanup_counter >>
    /\ UNCHANGED << appVars, readerVars, frameVars, cacheVars, refreshVars, rowHist, closeHist, selVars, wp_changed >>

\* _update_processes(data) run for a frame of a reader whose stream is not
\* bounded by MaxLines: any frame of `frames`.
UpdateProcesses(frames) ==
    /\ ui = "idle"
    /\ \E data \in frames : UpdateDataBegin(data)
    /\ UNCHANGED << after_queue, delivered, appVars, readerVars, refreshVars >>

\* Any frame the reader can emit arrives, in a run of at most MaxUpdates.
FrameArrives ==
    /\ cache_cleanup_counter < MaxUpdates
    /\ UpdateProcesses(Frames)

\* A frame of one sample arrives: one of the records of ProcLines.
ShortFrameArrives ==
    UpdateProcesses({ f \in Frames : Len(f) = 1 /\ f[1] \in { Fields[l] : l \in ProcLines } })

\* _on_close up to proc.wait: the running flag is cleared and the backend is
\* sent SIGTERM; the main thread blocks in wait for up to 2 seconds.
OnCloseBegin ==
    /\ ui = "idle"
    /\ running' = FALSE
    /\ ui' = "closing"
    /\ late' = [late EXCEPT !.held = (reader = "line"),
                            !.signals = Append(@, [sig |-> "SIGTERM", running |-> running'])]
    /\ UNCHANGED << proc, after_queue, delivered, perf_updates >>
    /\ UNCHANGED << readerVars, frameVars, viewVars, cacheVars, refreshVars, rowHist, selVars, wp_changed >>

\* An _on_close that kills the backend whether or not it has exited.
KillSentAlways(exited) == TRUE

\* Whether _on_close calls proc.kill(): in the except clause of
\* proc.wait(timeout=2), so when the backend has not exited within the wait.
KillSent(exited) == ~exited

\* The rest of _on_close: the backend has exited within the wait, or the
\* wait timed out and it is killed; then root.destroy().
OnCloseEnd ==
    /\ ui = "closing"
    /\ \E exited \in BOOLEAN :
          /\ proc' = IF exited THEN "exited" ELSE "killed"
          /\ late' = [late EXCEPT
                        !.wait = IF exited THEN "exited" ELSE "timeout",
                        !.signals = IF KillSent(exited)
                                    THEN Append(@, [sig |-> "SIGKILL", running |-> running])
                                    ELSE @]
    /\ ui' = "gone"
    /\ UNCHANGED << running, after_queue, delivered, perf_updates >>
    /\ UNCHANGED << readerVars, frameVars, viewVars, cacheVars, refreshVars, rowHist, selVars, wp_changed >>

\* ------------------------------------------------------ window-pid refresh

\* `wmctrl -lp` parsed: the pids of the third column that are positive.
WmctrlPids(reported) == { pid \in reported : pid > 0 }

\* update_window_pids without its guard.
MayStartFetchAlways(flag) == TRUE

\* The guard of update_window_pids: a refresh thread is started only when
\* no earlier one is still running.
MayStartFetch(flag) == ~flag

\* The periodic _update_window_pids, which calls update_window_pids: a new
\* _fetch_pids thread unless one is still running.
UpdateWindowPids ==
    /\ ui = "idle"
    /\ IF ~running
       THEN UNCHANGED refreshVars
       ELSE IF MayStartFetch(window_pid_thread_running)
            THEN /\ Len(fetchers) < MaxFetchers
                 /\ window_pid_thread_running' = TRUE
                 /\ fetchers' = Append(fetchers, "wmctrl")
                 /\ fetch_local' = Append(fetch_local, NoLocal)
                 /\ last_refresh' = "started"
                 /\ UNCHANGED << window_pids, last_result >>
            ELSE /\ last_refresh' = "skipped"
                 /\ UNCHANGED << window_pids, window_pid_thread_running, fetchers,
                                 fetch_local, last_result >>
    /\ late' = IF ~running /\ Len(fetchers') > Len(fetchers)
               THEN [late EXCEPT !.refreshes = @ + 1]
               ELSE late
    /\ UNCHANGED perf_updates
    /\ UNCHANGED << appVars, tkVars, readerVars, frameVars, viewVars, cacheVars, rowHist, selVars, wp_changed >>

\* The periodic _update_performance: PerformanceView.update unless the
\* running flag is clear.
UpdatePerformance ==
    /\ ui = "idle"
    /\ IF ~running
       THEN UNCHANGED closeHist
       ELSE /\ perf_updates < MaxTicks
            /\ perf_updates' = perf_updates + 1
            /\ late' = IF ~running THEN [late EXCEPT !.perf = @ + 1] ELSE late
    /\ UNCHANGED << appVars, tkVars, readerVars, frameVars, viewVars, cacheVars,
                    refreshVars, rowHist, selVars, wp_changed >>

\* _fetch_pids, first strategy, taken in one step (pids is local to the
\* thread until the assignment): wmctrl exits with 0 and its pids replace
\* window_pids, or it is missing, times out or fails.
FetchWmctrl ==
    \E i \in 1..Len(fetchers) :
        /\ fetchers[i] = "wmctrl"
        /\ \/ \E reported \in SUBSET (0..MaxPid) :
                /\ window_pids' = WmctrlPids(reported)
                /\ last_result' = WmctrlPids(reported)
                /\ fetchers' = [fetchers EXCEPT ![i] = "finally"]
           \/ /\ fetchers' = [fetchers EXCEPT ![i] = "xprop"]
              /\ UNCHANGED << window_pids, last_result >>
        /\ UNCHANGED << window_pid_thread_running, last_refresh, fetch_local >>
        /\ wp_changed' = (wp_changed \/ window_pids' # window_pids)
        /\ UNCHANGED selVars
        /\ UNCHANGED << appVars, tkVars, readerVars, frameVars, viewVars, cacheVars, rowHist, closeHist >>

\* _fetch_pids, second strategy, taken in one step: the pids xprop gave for
\* the windows of the root window's list (none when xprop fails) replace
\* window_pids.
FetchXprop ==
    \E i \in 1..Len(fetchers) :
        /\ fetchers[i] = "xprop"
        /\ \E pids \in SUBSET Pids : window_pids' = pids /\ last_result' = pids
        /\ fetchers' = [fetchers EXCEPT ![i] = "finally"]
        /\ UNCHANGED << window_pid_thread_running, last_refresh, fetch_local >>
        /\ wp_changed' = (wp_changed \/ window_pids' # window_pids)
        /\ UNCHANGED selVars
        /\ UNCHANGED << appVars, tkVars, readerVars, frameVars, viewVars, cacheVars, rowHist, closeHist >>

\* A thread that also falls back when wmctrl printed no positive pid.
RunsFallbackWhenEmpty(ok, reported) == ~ok \/ WmctrlPids(reported) = {}

\* Whether _fetch_pids goes on to xprop after wmctrl: when subprocess.run
\* raised (tool missing, timeout) or the exit code was not 0; with exit code
\* 0 the thread assigns what the loop collected and returns.
RunsFallback(ok, reported) == ~ok

\* The same thread taken statement by statement. subprocess.run(wmctrl):
\* it exits with 0 and the loop over its lines starts, or it is missing,
\* times out or exits with another code and the thread falls back to xprop.
FetchWmctrlRun ==
    \E i \in 1..Len(fetchers) :
        /\ fetchers[i] = "wmctrl"
        /\ \E ok \in BOOLEAN :
           \E reported \in IF ok THEN SUBSET (0..MaxPid) ELSE { {} } :
              IF RunsFallback(ok, reported)
              THEN /\ fetchers' = [fetchers EXCEPT ![i] = "xprop"]
                   /\ fetch_local' = [fetch_local EXCEPT
                                         ![i].bulk = IF ok THEN "ok" ELSE "failed",
                                         ![i].pairs = reported,
                                         ![i].fallback = TRUE]
              ELSE /\ fetchers' = [fetchers EXCEPT ![i] = "wmctrl_loop"]
                   /\ fetch_local' = [fetch_local EXCEPT
                                         ![i].all = reported,
                                         ![i].left = reported,
                                         ![i].bulk = IF ok THEN "ok" ELSE "failed",
                                         ![i].pairs = reported]
        /\ UNCHANGED << window_pids, window_pid_thread_running, last_refresh, last_result >>
        /\ UNCHANGED << appVars, tkVars, readerVars, frameVars, viewVars, cacheVars, rowHist, closeHist, selVars, wp_changed >>

\* subprocess.run(xprop -root): it exits with 0 and the loop over the
\* windows starts (with the pids the per-window queries will give), or it
\* fails and the loop is skipped, both tools having failed.
FetchXpropRun ==
    \E i \in 1..Len(fetchers) :
        /\ fetchers[i] = "xprop"
        /\ fetchers' = [fetchers EXCEPT ![i] = "xprop_loop"]
        /\ \/ \E reported \in SUBSET Pids :
                fetch_local' = [fetch_local EXCEPT ![i].all = reported,
                                                   ![i].left = reported]
           \/ fetch_local' = [fetch_local EXCEPT ![i].failed = TRUE]
        /\ UNCHANGED << window_pids, window_pid_thread_running, last_refresh, last_result >>
        /\ UNCHANGED << appVars, tkVars, readerVars, frameVars, viewVars, cacheVars, rowHist, closeHist, selVars, wp_changed >>

\* A loop that fills window_pids itself.
WindowPidsFilledInPlace(wp, pids) == pids

\* window_pids after pids.add(pid): the loop fills the local set.
WindowPidsAfterAdd(wp, pids) == wp

\* One iteration of either loop: pids.add(pid), in the wmctrl loop for a
\* positive pid only.
FetchAdd ==
    \E i \in 1..Len(fetchers) :
        /\ fetchers[i] \in { "wmctrl_loop", "xprop_loop" }
        /\ \E pid \in fetch_local[i].left :
            LET pids == IF fetchers[i] = "wmctrl_loop" /\ ~(pid > 0)
                        THEN fetch_local[i].pids
                        ELSE fetch_local[i].pids \cup {pid}
            IN  /\ fetch_local' = [fetch_local EXCEPT ![i].left = @ \ {pid},
                                                      ![i].pids = pids]
                /\ window_pids' = WindowPidsAfterAdd(window_pids, pids)
        /\ UNCHANGED << fetchers, window_pid_thread_running, last_refresh, last_result >>
        /\ wp_changed' = (wp_changed \/ window_pids' # window_pids)
        /\ UNCHANGED selVars
        /\ UNCHANGED << appVars, tkVars, readerVars, frameVars, viewVars, cacheVars, rowHist, closeHist >>

\* An assignment that keeps the previous snapshot when the thread found no
\* pid.
PidsKept(old, pids) == IF pids = {} THEN old ELSE pids

\* self.window_pids = pids
PidsAssigned(old, pids) == pids

\* The end of either loop: self.window_pids = pids.
FetchAssign ==
    \E i \in 1..Len(fetchers) :
        /\ fetchers[i] \in { "wmctrl_loop", "xprop_loop" }
        /\ fetch_local[i].left = {}
        /\ window_pids' = PidsAssigned(window_pids, fetch_local[i].pids)
        /\ last_result' = IF fetchers[i] = "wmctrl_loop"
                          THEN WmctrlPids(fetch_local[i].all)
                          ELSE fetch_local[i].all
        /\ fetch_local' = [fetch_local EXCEPT ![i].old = window_pids]
        /\ fetchers' = [fetchers EXCEPT ![i] = "finally"]
        /\ UNCHANGED << window_pid_thread_running, last_refresh >>
        /\ wp_changed' = (wp_changed \/ window_pids' # window_pids)
        /\ UNCHANGED selVars
        /\ UNCHANGED << appVars, tkVars, readerVars, frameVars, viewVars, cacheVars, rowHist, closeHist >>

\* A finally block that leaves the flag set.
FlagKeptSet == TRUE

\* What _fetch_pids' finally block leaves in _window_pid_thread_running.
FlagAfterFetch == FALSE

\* _fetch_pids' finally block, after which the thread ends.
FetchFinally ==
    \E i \in 1..Len(fetchers) :
        /\ fetchers[i] = "finally"
        /\ window_pid_thread_running' = FlagAfterFetch
        /\ fetchers' = SubSeq(fetchers, 1, i - 1) \o SubSeq(fetchers, i + 1, Len(fetchers))
        /\ fetch_local' =
              SubSeq(fetch_local, 1, i - 1) \o SubSeq(fetch_local, i + 1, Len(fetch_local))
        /\ UNCHANGED << window_pids, last_refresh, last_result >>
        /\ UNCHANGED << appVars, tkVars, readerVars, frameVars, viewVars, cacheVars, rowHist, closeHist, selVars, wp_changed >>

\* --------------------------------------------------------- specifications

\* The reader thread, the main loop running its callbacks, and the close.
Next ==
    \/ ReadNext
    \/ ReadLine
    \/ ReadEOF
    \/ DispatchProcesses
    \/ DispatchGpu
    \/ UpdateDataFold
    \/ OnCloseBegin
    \/ OnCloseEnd

Spec == Init /\ [][Next]_vars

\* The processes view: frames arriving, the periodic window-pid refresh and
\* its worker thread.
ViewNext ==
    \/ FrameArrives
    \/ UpdateDataFold
    \/ UpdateWindowPids
    \/ FetchWmctrl
    \/ FetchXprop
    \/ FetchFinally

ViewSpec == Init /\ [][ViewNext]_vars

\* The processes view over the many frames of one-sample that lead up to and
\* past a cache cleanup.
PurgeNext ==
    \/ ShortFrameArrives
    \/ UpdateDataFold
    \/ UpdateWindowPids
    \/ FetchWmctrl
    \/ FetchXprop
    \/ FetchFinally

PurgeSpec == Init /\ [][PurgeNext]_vars

\* The periodic window-pid refresh and its worker thread, statement by
\* statement.
RefreshNext ==
    \/ UpdateWindowPids
    \/ FetchWmctrlRun
    \/ FetchXpropRun
    \/ FetchAdd
    \/ FetchAssign
    \/ FetchFinally

RefreshSpec == Init /\ [][RefreshNext]_vars

\* The same with a scheduler that lets a live _fetch_pids thread run: each of
\* its statements ends, the tools being run with a timeout (2 seconds, 0.2
\* seconds for a window's query) and the loop over the windows being capped
\* at 50.
RefreshFairness ==
    /\ WF_vars(FetchWmctrlRun)
    /\ WF_vars(FetchXpropRun)
    /\ WF_vars(FetchAdd)
    /\ WF_vars(FetchAssign)
    /\ WF_vars(FetchFinally)

RefreshLiveSpec == RefreshSpec /\ RefreshFairness

\* The pids attribute of the row selected_row refers to, as a set.
SelectedPids ==
    LET pids == IF selected_row.destroyed THEN selected_row.pids
                ELSE rows[selected_row.key].pids
    IN  { pids[i] : i \in 1..Len(pids) }

\* A click or right click on the row of `key`: _on_row_select(row). The
\* set_selected(False) of the row selected before clears its flag and then
\* configures its widgets; on a row that was destroyed the configure raises
\* TclError and _on_row_select ends there.
RowClick(key) ==
    /\ ui = "idle"
    /\ key \in DOMAIN rows
    /\ LET raises == selected_row # NoRow /\ selected_row.destroyed
           unmarked == IF selected_row # NoRow /\ ~selected_row.destroyed
                       THEN marked \ {selected_row.key}
                       ELSE marked
       IN  /\ last_click' = [key |-> key, raised |-> raises]
           /\ IF raises
              THEN UNCHANGED << selected_row, marked, end_btn >>
              ELSE /\ selected_row' = RowRef(key)
                   /\ marked' = unmarked \cup {key}
                   /\ end_btn' = "normal"
    /\ UNCHANGED last_kill
    /\ UNCHANGED << appVars, tkVars, readerVars, frameVars, viewVars, cacheVars,
                    refreshVars, rowHist, closeHist, wp_changed >>

\* The End task button or menu entry: _kill_selected. It returns when nothing
\* is selected or the dialog is answered no; otherwise every pid of the row
\* is sent SIGTERM, those still running after the sleep SIGKILL, and the
\* selection is dropped and the button disabled. The row keeps its flag.
KillSelected ==
    /\ ui = "idle"
    /\ selected_row # NoRow
    /\ \E yes \in BOOLEAN, running_still \in SUBSET SelectedPids :
         IF yes
         THEN /\ last_kill' = [fn |-> "_kill_selected", key |-> selected_row.key,
                               pids |-> SelectedPids, again |-> running_still,
                               in_rows |-> ~selected_row.destroyed]
              /\ selected_row' = NoRow
              /\ end_btn' = "disabled"
         ELSE /\ running_still = {}
              /\ UNCHANGED << last_kill, selected_row, end_btn >>
    /\ UNCHANGED << marked, last_click >>
    /\ UNCHANGED << appVars, tkVars, readerVars, frameVars, viewVars, cacheVars,
                    refreshVars, rowHist, closeHist, wp_changed >>

\* The Force Kill menu entry: _force_kill_selected sends SIGKILL to every
\* pid of the row and leaves the selection as it is.
ForceKillSelected ==
    /\ ui = "idle"
    /\ selected_row # NoRow
    /\ last_kill' = [fn |-> "_force_kill_selected", key |-> selected_row.key,
                     pids |-> SelectedPids, again |-> {},
                     in_rows |-> ~selected_row.destroyed]
    /\ UNCHANGED << selected_row, marked, end_btn, last_click >>
    /\ UNCHANGED << appVars, tkVars, readerVars, frameVars, viewVars, cacheVars,
                    refreshVars, rowHist, closeHist, wp_changed >>

\* A frame arrives, in a run of at most MaxUpdates.
SelectFrameArrives ==
    /\ cache_cleanup_counter < MaxUpdates
    /\ UpdateProcesses(Frames)

\* The processes view with frames arriving and rows being clicked.
ClickNext ==
    \/ SelectFrameArrives
    \/ UpdateDataFold
    \/ \E key \in DOMAIN rows : RowClick(key)

ClickSpec == Init /\ [][ClickNext]_vars

\* The same with the End task and Force kill commands.
SelectNext ==
    \/ SelectFrameArrives
    \/ UpdateDataFold
    \/ \E key \in DOMAIN rows : RowClick(key)
    \/ KillSelected
    \/ ForceKillSelected

SelectSpec == Init /\ [][SelectNext]_vars

\* A frame of ErrFrames arrives, in a run of at most MaxUpdates.
ErrFrameArrives ==
    /\ cache_cleanup_counter < MaxUpdates
    /\ UpdateProcesses(ErrFrames)

\* The processes view fed frames that hold records whose pid, cpu or mem is
\* not a number.
ErrNext ==
    \/ ErrFrameArrives
    \/ UpdateDataFold
    \/ UpdateDataAbort

ErrSpec == Init /\ [][ErrNext]_vars

\* A frame of one sample of ClassifyLines arrives, in a run of at most
\* MaxUpdates.
ClassifyFrameArrives ==
    /\ cache_cleanup_counter < MaxUpdates
    /\ UpdateProcesses(ClassifyFrames)

\* The processes view fed frames whose names take every branch of
\* _classify_process, against the window-pid refresh.
ClassifyNext ==
    \/ ClassifyFrameArrives
    \/ UpdateDataFold
    \/ UpdateWindowPids
    \/ FetchWmctrl
    \/ FetchXprop
    \/ FetchFinally

ClassifySpec == Init /\ [][ClassifyNext]_vars

\* The whole program on a short stream: the reader, the main loop with its
\* callbacks and its two periodic ones, the refresh thread and the close
\* handler.
CloseNext ==
    \/ ReadNext
    \/ ReadLine
    \/ ReadEOF
    \/ DispatchProcesses
    \/ DispatchGpu
    \/ UpdateDataFold
    \/ UpdateWindowPids
    \/ UpdatePerformance
    \/ FetchWmctrl
    \/ FetchXprop
    \/ FetchFinally
    \/ OnCloseBegin
    \/ OnCloseEnd

CloseSpec == CloseInit /\ [][CloseNext]_vars

\* ------------------------------------------------------------- the claims

\* What a line is by itself (whatever the state of the reader): blank, a
\* sentinel, a process record (6 fields), a GPU record (the GPU tag and 9
\* fields) or junk.
Kind(l) ==
    LET s == Stripped[l]
    IN  IF Len(s) = 0 THEN "blank"
        ELSE IF s \in { "END", "GPU_START", "GPU_END" } THEN s
        ELSE IF Len(Fields[l]) = 6 THEN "proc"
        ELSE IF StartsWith(s, "GPU|") /\ Len(Fields[l]) = 9 THEN "gpu"
        ELSE "junk"

RECURSIVE WellFramedFrom(_, _, _)
\* The lines from position i on, read inside (or outside) a GPU block, keep
\* process records and END outside the GPU_START..GPU_END blocks and GPU
\* records inside them, the blocks not nested; blank and junk lines anywhere.
WellFramedFrom(lines, i, inside) ==
    IF i > Len(lines) THEN TRUE
    ELSE LET k == Kind(lines[i])
         IN  CASE k \in { "blank", "junk" } -> WellFramedFrom(lines, i + 1, inside)
               [] k = "GPU_START" -> ~inside /\ WellFramedFrom(lines, i + 1, TRUE)
               [] k = "GPU_END" -> inside /\ WellFramedFrom(lines, i + 1, FALSE)
               [] k = "gpu" -> inside /\ WellFramedFrom(lines, i + 1, inside)
               [] OTHER -> ~inside /\ WellFramedFrom(lines, i + 1, inside)

WellFramed(lines) == WellFramedFrom(lines, 1, FALSE)

RECURSIVE RecordFrames(_, _, _, _)
\* The frames of the records of lines from position i on, grouped by their
\* sentinels: the process records up to each END and the GPU records up to
\* each GPU_END, a group of no record giving no frame. pbuf and gbuf hold the
\* records met since the last END and GPU_END.
RecordFrames(lines, i, pbuf, gbuf) ==
    IF i > Len(lines) THEN << >>
    ELSE LET k == Kind(lines[i])
         IN  CASE k = "proc" ->
                    RecordFrames(lines, i + 1, Append(pbuf, Fields[lines[i]]), gbuf)
               [] k = "gpu" ->
                    RecordFrames(lines, i + 1, pbuf, Append(gbuf, Tail(Fields[lines[i]])))
               [] k = "END" ->
                    (IF pbuf = << >> THEN << >>
                     ELSE << [fn |-> "_update_processes", arg |-> pbuf] >>)
                    \o RecordFrames(lines, i + 1, << >>, gbuf)
               [] k = "GPU_END" ->
                    (IF gbuf = << >> THEN << >>
                     ELSE << [fn |-> "_update_gpu", arg |-> gbuf] >>)
                    \o RecordFrames(lines, i + 1, pbuf, << >>)
               [] OTHER -> RecordFrames(lines, i + 1, pbuf, gbuf)

IsRecordOrSentinel(l) == Kind(l) \notin { "blank", "junk" }

\* The callbacks scheduled so far, with the arguments they were given.
Scheduled == delivered \o after_queue

C2_Monotonic == last_call.was_app => last_call.ret

\* C2, amended: once _classify_process has returned True for a pid, every
\* later call for that pid returns True for as long as no cache cleanup has
\* removed the pid's entry, even when window_pids no longer holds the pid.
C2_MonotonicUntilPurged == last_call.was_kept => last_call.ret

\* A call that returned True for a pid classified True before, after
\* window_pids has lost the pid.
C2_Witness ==
    /\ last_call.was_kept
    /\ last_call.ret
    /\ last_call.pid \notin window_pids
    /\ ui = "idle"

RECURSIVE SumOver(_, _)
\* The sum of f[i] over the i of the finite set S.
SumOver(S, f) ==
    IF S = {} THEN 0
    ELSE LET i == CHOOSE j \in S : TRUE
         IN  f[i] + SumOver(S \ {i}, f)

\* The samples of process_data folded so far into the group of `name` in
\* apps (is_app) or in background.
FoldedInto(is_app, name) ==
    { i \in 1..Len(classified) : process_data[i][2] = name /\ classified[i] = is_app }

SumLaw(target, is_app) ==
    /\ DOMAIN target = { process_data[i][2] : i \in { j \in 1..Len(classified) : classified[j] = is_app } }
    /\ \A name \in DOMAIN target :
         /\ target[name].cpu =
              SumOver(FoldedInto(is_app, name), [i \in 1..Len(classified) |-> Parsed[process_data[i]].cpu])
         /\ target[name].mem =
              SumOver(FoldedInto(is_app, name), [i \in 1..Len(classified) |-> Parsed[process_data[i]].mem])

\* C3: the cpu of every group is the sum of cpu_percent over the samples of
\* the frame folded into its key, and its mem the sum of their mem_kb / 1024
\* (counted here in 1/1024 MiB); there is a group for exactly the keys some
\* sample was folded into.
C3_SumLaw == SumLaw(apps, TRUE) /\ SumLaw(background, FALSE)

\* update_data has folded two samples of different cpu and mem into one group.
C3_Witness ==
    /\ ui = "idle"
    /\ \E name \in DOMAIN background :
         /\ Cardinality(FoldedInto(FALSE, name)) = 2
         /\ \E i, j \in FoldedInto(FALSE, name) :
              Parsed[process_data[i]].cpu # Parsed[process_data[j]].cpu

\* The pids of a group hold no duplicate and are the keys of its details, and
\* its cpu and mem are the sums of the cpu and mem of its details.
GroupConsistent(g) ==
    /\ \A i, j \in 1..Len(g.pids) : g.pids[i] = g.pids[j] => i = j
    /\ { g.pids[i] : i \in 1..Len(g.pids) } = DOMAIN g.details
    /\ g.cpu = SumOver(DOMAIN g.details, [pid \in DOMAIN g.details |-> g.details[pid].cpu])
    /\ g.mem = SumOver(DOMAIN g.details, [pid \in DOMAIN g.details |-> g.details[pid].mem])

\* C4: every group update_data has produced from a frame of the reader is
\* consistent with its details.
C4_GroupDetailConsistent ==
    ui = "idle" =>
        /\ \A name \in DOMAIN apps : GroupConsistent(apps[name])
        /\ \A name \in DOMAIN background : GroupConsistent(background[name])

\* newKeys of the last _update_rows call: the keys of the groups handed to it.
NewKeys ==
    { << "app", n >> : n \in DOMAIN apps } \cup { << "bg", n >> : n \in DOMAIN background }

GroupOf(key) == IF key[1] = "app" THEN apps[key[2]] ELSE background[key[2]]

\* A row as its constructor leaves it, and a row holding what update_data
\* was given for the group.
IsFreshRow(row) == row.prev_cpu = -1 /\ row.prev_mem = -1
ShowsGroup(row, g) ==
    row.pids = g.pids /\ row.state = g.state /\ row.process_details = g.details

\* C5: in every _update_rows call the rows created are those of newKeys less
\* previousKeys, the rows destroyed those of previousKeys less newKeys, the
\* rows updated in place those of both, and the three sets are disjoint.
C5_SetDifference ==
    ui = "idle" =>
        /\ rows_created = NewKeys \ prev_row_keys
        /\ rows_destroyed = prev_row_keys \ NewKeys
        /\ rows_updated = NewKeys \cap prev_row_keys
        /\ rows_created \cap rows_destroyed = {}
        /\ rows_created \cap rows_updated = {}
        /\ rows_destroyed \cap rows_updated = {}
        /\ DOMAIN rows = (prev_row_keys \ rows_destroyed) \cup rows_created
        /\ \A key \in rows_created : IsFreshRow(rows[key]) /\ ShowsGroup(rows[key], GroupOf(key))
        /\ \A key \in rows_updated : ~IsFreshRow(rows[key]) /\ ShowsGroup(rows[key], GroupOf(key))

\* One _update_rows call has created a row, destroyed a row and updated a row.
C5_Witness ==
    /\ ui = "idle"
    /\ rows_created # {}
    /\ rows_destroyed # {}
    /\ rows_updated # {}

\* C6: when two consecutive frames give the same set of group keys, the
\* second _update_rows call creates no row, destroys no row and updates the
\* row of every key.
C6_Idempotent ==
    (ui = "idle" /\ prev_group_keys # {} /\ NewKeys = prev_group_keys) =>
        /\ rows_created = {}
        /\ rows_destroyed = {}
        /\ rows_updated = NewKeys
        /\ DOMAIN rows = NewKeys
        /\ \A key \in NewKeys : ~IsFreshRow(rows[key])

\* Two consecutive frames of the same two keys, the second reconciled.
C6_Witness ==
    /\ ui = "idle"
    /\ NewKeys = prev_group_keys
    /\ Cardinality(NewKeys) = 2
    /\ rows_updated = NewKeys

IsProcessesCallback(cb) == cb.fn = "_update_processes"
IsGpuCallback(cb) == cb.fn = "_update_gpu"

IsPrefix(a, b) == Len(a) <= Len(b) /\ a = SubSeq(b, 1, Len(a))

\* C7: the process frames update_data has been run on are, in order and each
\* once, the first of the process frames the reader scheduled at their END
\* lines, and likewise the GPU frames of update_gpu_data; the frames not yet
\* run wait in the order they were scheduled.
C7_FrameOrder ==
    /\ IsPrefix(SelectSeq(delivered, IsProcessesCallback), SelectSeq(emitted, IsProcessesCallback))
    /\ IsPrefix(SelectSeq(delivered, IsGpuCallback), SelectSeq(emitted, IsGpuCallback))
    /\ delivered \o after_queue = emitted
    /\ LET p == SelectSeq(delivered, IsProcessesCallback)
       IN  p # << >> => process_data = p[Len(p)].arg
    /\ LET g == SelectSeq(delivered, IsGpuCallback)
       IN  g # << >> => gpu_data = g[Len(g)].arg

\* Two different process frames were scheduled before the first was run, and
\* both have been run.
C7_Witness ==
    /\ Len(delivered) = 2
    /\ IsProcessesCallback(delivered[1]) /\ IsProcessesCallback(delivered[2])
    /\ delivered[1].arg # delivered[2].arg
    /\ ui = "idle"
    /\ after_queue = << >>

\* The state update_window_pids reads and writes.
refreshState == << window_pids, window_pid_thread_running, fetchers >>

\* C8: at most one _fetch_pids thread is alive at any time, and an
\* update_window_pids call made while one is alive starts no thread and
\* changes nothing.
C8_SingleRefresh ==
    /\ [](Len(fetchers) <= 1)
    /\ [][(window_pid_thread_running /\ UpdateWindowPids) => UNCHANGED refreshState]_vars

\* update_window_pids was called while a refresh was running.
C8_Witness == last_refresh = "skipped" /\ Len(fetchers) = 1

\* The callbacks the reader schedules in a step.
NewlyEmitted == SubSeq(emitted', Len(emitted) + 1, Len(emitted'))

C9_Step ==
    /\ (\E i \in 1..Len(NewlyEmitted) : IsProcessesCallback(NewlyEmitted[i])) =>
          /\ reader = "line"
          /\ Stripped[line] = "END"
          /\ ~in_gpu_block
          /\ frame # << >>
          /\ NewlyEmitted = << [fn |-> "_update_processes", arg |-> frame] >>
          /\ after_queue' = Append(after_queue, [fn |-> "_update_processes", arg |-> frame])
          /\ frame' = << >>
    /\ (\A i \in 1..Len(NewlyEmitted) : ~IsProcessesCallback(NewlyEmitted[i])) =>
          \/ frame' = frame
          \/ \E l \in Lines : frame' = Append(frame, Fields[l])
    /\ (reader = "line" /\ reader' # "line" /\ Stripped[line] = "END" /\ frame = << >>) =>
          emitted' = emitted /\ after_queue' = after_queue
    /\ (reader = "exited") =>
          reader' = "exited" /\ emitted' = emitted /\ frame' = frame

\* C9: a process frame is scheduled only by an END line read outside a GPU
\* block with a non-empty buffer; it holds the whole buffer, which only grew
\* since the last frame and is empty afterwards; an END read with an empty
\* buffer schedules nothing; and once the reader has left its loop nothing
\* more is scheduled, whatever is still buffered.
C9_ProcessFrames == [][C9_Step]_vars

\* A process frame was scheduled, and the reader has left its loop with
\* samples still buffered.
C9_Witness ==
    /\ reader = "exited"
    /\ frame # << >>
    /\ \E i \in 1..Len(emitted) : IsProcessesCallback(emitted[i])

RECURSIVE SumLen(_)
SumLen(cbs) == IF cbs = << >> THEN 0 ELSE Len(Head(cbs).arg) + SumLen(Tail(cbs))

\* C10: every GPU record read is scheduled in at most one GPU frame (the
\* buffer being cleared once it is scheduled): the GPU frames scheduled hold
\* no more samples than GPU records were read.
C10_GpuOnce ==
    SumLen(SelectSeq(emitted, IsGpuCallback))
        <= Cardinality({ i \in 1..Len(input) : Kind(input[i]) = "gpu" })

\* A line the decoder's state machine drops: a blank line, in NORMAL a line
\* that is neither END nor GPU_START and has not 6 fields, in IN_GPU_BLOCK a
\* line that is neither GPU_END nor a GPU record of 9 fields.
DroppedLine(l, inside) ==
    LET s == Stripped[l]
    IN  \/ Len(s) = 0
        \/ ~inside /\ s \notin { "END", "GPU_START" } /\ Len(Fields[l]) # 6
        \/ inside /\ s # "GPU_END" /\ ~(StartsWith(s, "GPU|") /\ Len(Fields[l]) = 9)

C11_Step ==
    (reader = "line" /\ reader' # "line" /\ DroppedLine(line, in_gpu_block)) =>
        /\ frame' = frame
        /\ gpu_frame' = gpu_frame
        /\ in_gpu_block' = in_gpu_block
        /\ emitted' = emitted
        /\ after_queue' = after_queue
        /\ reader' = "next"

\* C11: the reader's step on a dropped line schedules no frame, leaves the
\* process buffer, the GPU buffer and the NORMAL / IN_GPU_BLOCK state as they
\* were, and goes on to the next line.
C11_DroppedLineNoEffect == [][C11_Step]_vars

C12_Step ==
    \A pid \in DOMAIN classification_cache \cap DOMAIN classification_cache' :
        /\ classification_cache[pid] => classification_cache'[pid]
        /\ (~classification_cache[pid] /\ classification_cache'[pid]) =>
              /\ ui = "update_data"
              /\ Parsed[process_data[idx]].pid = pid
              /\ pid \in window_pids

\* C12: no step changes an existing cache entry from True to False, and an
\* existing False entry becomes True only in a _classify_process call for
\* its pid made while window_pids holds the pid.
C12_CacheMonotonic == [][C12_Step]_vars

\* A call found False cached for a pid that window_pids held, and upgraded
\* the entry; and a call found True cached for a pid window_pids had lost.
C12_Witness ==
    /\ last_call.cached = "false"
    /\ last_call.in_wp
    /\ last_call.ret
    /\ classification_cache[last_call.pid]
    /\ \E pid \in DOMAIN classification_cache :
         pid # last_call.pid /\ classification_cache[pid] /\ pid \notin window_pids

\* The pids of a frame.
FramePids(data) == { Parsed[data[i]].pid : i \in 1..Len(data) }

\* A step that is the start of an update_data call.
IsUpdateDataCall == ui = "idle" /\ ui' = "update_data"

C13_Step ==
    /\ (\E pid \in DOMAIN classification_cache : pid \notin DOMAIN classification_cache') =>
          IsUpdateDataCall /\ update_calls' = 0
    /\ (IsUpdateDataCall /\ update_calls' = 0) =>
          classification_cache' =
              [pid \in DOMAIN classification_cache \cap FramePids(process_data') |->
                  classification_cache[pid]]
    /\ (IsUpdateDataCall /\ update_calls' # 0) =>
          classification_cache' = classification_cache

\* C13: cache entries are deleted only at the start of an update_data call
\* whose number is a multiple of 30, which keeps exactly the entries of the
\* pids of its frame; the other calls delete nothing; and the cleanup counter
\* is always in 0..29, equal to the number of calls modulo 30.
C13_Purge ==
    /\ [](cache_cleanup_counter \in 0..(CLEANUP_EVERY - 1) /\ cache_cleanup_counter = update_calls)
    /\ [][C13_Step]_vars

\* The state a purging call leaves before its loop: an entry of a pid of the
\* frame was kept, and an entry that was True has been deleted.
C13_Witness ==
    /\ ui = "update_data"
    /\ idx = 1
    /\ update_calls = 0
    /\ DOMAIN classification_cache # {}
    /\ DOMAIN classification_cache \subseteq FramePids(process_data)
    /\ ever_app \ app_kept # {}

\* Each pid of the frame is on one line of it.
UniquePids(data) ==
    \A i, j \in 1..Len(data) : Parsed[data[i]].pid = Parsed[data[j]].pid => i = j

\* The keys of the groups whose pids hold pid, and the places of pid in the
\* pids of a group.
GroupsOf(pid) ==
    { key \in NewKeys : \E i \in 1..Len(GroupOf(key).pids) : GroupOf(key).pids[i] = pid }
PlacesOf(pid, g) == { i \in 1..Len(g.pids) : g.pids[i] = pid }

\* C14: after update_data of a frame in which every pid is on one line,
\* every pid of the frame is in the pids of exactly one group of apps and
\* background, once, and the groups hold no pid that is not in the frame.
C14_OneGroupPerPid ==
    (ui = "idle" /\ UniquePids(process_data)) =>
        /\ \A pid \in FramePids(process_data) :
             /\ Cardinality(GroupsOf(pid)) = 1
             /\ \A key \in GroupsOf(pid) : Cardinality(PlacesOf(pid, GroupOf(key))) = 1
        /\ \A key \in NewKeys :
             \A i \in 1..Len(GroupOf(key).pids) : GroupOf(key).pids[i] \in FramePids(process_data)

\* A frame of two pids that update_data has put into a group of apps and a
\* group of background of the same name.
C14_Witness ==
    /\ ui = "idle"
    /\ Len(process_data) = 2
    /\ UniquePids(process_data)
    /\ \E name \in DOMAIN apps \cap DOMAIN background :
         Len(apps[name].pids) = 1 /\ Len(background[name].pids) = 1

\* The pids in the pids list of a group or of a row.
PidsIn(pids) == { pids[i] : i \in 1..Len(pids) }

\* C15: after update_data of a frame, the pids and details of every group
\* hold only pids of that frame; and a key that the frame before also gave
\* is updated (its row neither destroyed nor created), its row showing the
\* pids and details of the new group only.
C15_RebuiltEachFrame ==
    ui = "idle" =>
        \A key \in NewKeys :
            /\ PidsIn(GroupOf(key).pids) \subseteq FramePids(process_data)
            /\ DOMAIN GroupOf(key).details \subseteq FramePids(process_data)
            /\ key \in DOMAIN prev_group_pids =>
                  /\ key \in rows_updated
                  /\ key \notin rows_created \cup rows_destroyed
                  /\ rows[key].pids = GroupOf(key).pids
                  /\ rows[key].process_details = GroupOf(key).details

\* A group kept its key while one of its pids was absent from the next
\* frame: the key was updated and the pid is gone from group and row.
C15_Witness ==
    /\ ui = "idle"
    /\ \E key \in NewKeys \cap DOMAIN prev_group_pids :
         \E pid \in PidsIn(prev_group_pids[key]) :
            /\ Len(prev_group_pids[key]) = 2
            /\ pid \notin FramePids(process_data)
            /\ key \in rows_updated
            /\ pid \notin PidsIn(GroupOf(key).pids)
            /\ pid \notin DOMAIN rows[key].process_details

\* The threads whose two tools have failed.
FailedFetchers(pos) ==
    { i \in 1..Len(fetchers) : fetchers[i] = pos /\ fetch_local[i].failed }

C16_Step ==
    /\ \A i \in FailedFetchers("xprop_loop") :
          (Len(fetchers') = Len(fetchers) /\ fetchers'[i] = "finally") => window_pids' = {}
    /\ (Len(fetchers') < Len(fetchers)) => ~window_pid_thread_running'
    /\ (fetchers = << >> /\ running /\ UpdateWindowPids) =>
          /\ fetchers' = << "wmctrl" >>
          /\ window_pid_thread_running'
          /\ window_pids' = window_pids

\* C16: a refresh whose two tools failed goes on to its assignment and its
\* finally block (it is never stopped by an exception), its assignment
\* leaves window_pids empty, its end clears the in-flight flag, and the next
\* update_window_pids call starts a new thread.
C16_ResolverFailure ==
    /\ [](/\ \A i \in FailedFetchers("xprop_loop") : fetch_local[i].left = {}
          /\ \A i \in FailedFetchers("finally") : window_pids = {}
          /\ fetchers = << >> => ~window_pid_thread_running)
    /\ [][C16_Step]_vars

\* A refresh whose two tools failed has replaced a non-empty window_pids by
\* the empty set.
C16_Witness ==
    \E i \in FailedFetchers("finally") :
        fetch_local[i].old # {} /\ window_pids = {}

C18_Step ==
    (window_pids' # window_pids) =>
        \E i \in 1..Len(fetchers) :
            /\ fetchers[i] \in { "wmctrl_loop", "xprop_loop" }
            /\ fetch_local[i].left = {}
            /\ fetchers'[i] = "finally"
            /\ window_pids' = last_result'

\* C18: window_pids always holds the complete result of the refresh that
\* finished last (the empty set before any has), and changes only in the
\* assignment a thread makes after its loop has ended; the set a running
\* thread is filling is not window_pids.
C18_AtomicReplace ==
    /\ [](window_pids = last_result)
    /\ [][C18_Step]_vars

\* A thread is part-way through its loop, its set half filled, while
\* window_pids holds the different, complete result of an earlier refresh.
C18_Witness ==
    \E i \in 1..Len(fetchers) :
        /\ fetchers[i] \in { "wmctrl_loop", "xprop_loop" }
        /\ fetch_local[i].pids # {}
        /\ fetch_local[i].left # {}
        /\ window_pids # {}
        /\ window_pids # fetch_local[i].pids
\* C17 as stated: once _on_close has cleared the running flag the reader
\* schedules no further process or GPU frame, and no window-pid refresh and
\* no performance update is started.
C17_NothingAfterClose ==
    late.frames = 0 /\ late.refreshes = 0 /\ late.perf = 0

C17_Step ==
    ~running =>
        /\ delivered' = delivered
        /\ gpu_data' = gpu_data
        /\ process_groups' = process_groups
        /\ perf_updates' = perf_updates
        /\ Len(fetchers') <= Len(fetchers)
        /\ (reader = "next" => reader' \in { "next", "exited" })
        /\ (reader = "exited" => reader' = "exited")

\* C17, amended: once _on_close has cleared the running flag the reader takes
\* no further line from the stream and ends at its next loop test or at the
\* end of the stream; it schedules at most the callbacks of the one line it
\* held when the flag was cleared, and the main loop runs none of them; no
\* window-pid refresh and no performance update is started.
C17_CooperativeStop ==
    /\ [](/\ late.refreshes = 0
          /\ late.perf = 0
          /\ late.frames <= 1
          /\ (late.frames > 0 => late.held))
    /\ [][C17_Step]_vars

\* The close handler has run to its end while the reader held a line: the
\* reader scheduled that line's frame after the flag was cleared, and then
\* ended; the frame is still queued.
C17_Witness ==
    /\ ~running
    /\ ui = "gone"
    /\ reader = "exited"
    /\ late.held
    /\ late.frames = 1
    /\ after_queue # << >>

\* C19: a call for a pid with no cache entry returns False when the name is
\* blacklisted or holds a helper token, even with the pid in window_pids
\* and an application pattern in the name; otherwise it returns True when
\* the pid is in window_pids or the name holds an application pattern.
C19_Precedence ==
    (last_call.pid # 0 /\ last_call.cached = "none") =>
        LET t == NameTests[last_call.name]
        IN  IF t.blacklist \/ t.helper
            THEN ~last_call.ret
            ELSE (last_call.in_wp \/ t.app) => last_call.ret

\* A first call for "Chrome Helper" with its pid in window_pids: a helper
\* token, an application pattern and a window, classified False.
C19_Witness ==
    /\ last_call.pid # 0
    /\ last_call.cached = "none"
    /\ last_call.name = "Chrome Helper"
    /\ HasHelperToken(last_call.name)
    /\ HasAppPattern(last_call.name)
    /\ ~InBlacklist(last_call.name)
    /\ last_call.in_wp
    /\ ~last_call.ret

C20_Step ==
    classified' # classified /\ classified' # << >> =>
        /\ last_call'.pid \in DOMAIN classification_cache'
        /\ classification_cache'[last_call'.pid] = last_call'.ret
        /\ (last_call'.uid \in UidOutcomes => ~last_call'.ret)
        /\ \A pid \in DOMAIN classification_cache :
              pid # last_call'.pid =>
                  /\ pid \in DOMAIN classification_cache'
                  /\ classification_cache'[pid] = classification_cache[pid]

\* C20: after every _classify_process call the cache holds the value
\* returned under the call's pid, and every other entry is as before; a call
\* decided by the uid lookup returns False, and caches it, whatever the
\* lookup's outcome.
C20_WriteThrough == [][C20_Step]_vars

\* A call that came to the uid lookup, found the session's own uid, and
\* returned False, with False now in the cache.
C20_Witness ==
    /\ last_call.pid # 0
    /\ last_call.uid = "same"
    /\ ~last_call.ret
    /\ ui = "idle"
    /\ last_call.pid \in DOMAIN classification_cache
    /\ ~classification_cache[last_call.pid]

\* C21: after every update_data call that completes, the keys of rows are
\* exactly the (category, name) keys of the groups the call aggregated, and
\* process_groups holds those groups' names; rows is empty until the first
\* call, whose reconciliation creates a row for every key and destroys and
\* updates none.
C21_RowsTrackGroups ==
    /\ (update_calls = 0 /\ cache_cleanup_counter = 0) => rows = EmptyDict
    /\ (ui = "idle" /\ cache_cleanup_counter > 0) =>
          /\ DOMAIN rows = NewKeys
          /\ DOMAIN process_groups = DOMAIN apps \cup DOMAIN background
          /\ \A key \in DOMAIN rows : ShowsGroup(rows[key], GroupOf(key))
    /\ (ui = "idle" /\ cache_cleanup_counter = 1 /\ update_calls = 1) =>
          /\ prev_row_keys = {}
          /\ rows_created = NewKeys
          /\ rows_destroyed = {}
          /\ rows_updated = {}

\* A third frame reconciled whose keys differ from those of the frame
\* before: rows has followed, a row destroyed and a row created.
C21_Witness ==
    /\ ui = "idle"
    /\ cache_cleanup_counter = 3
    /\ NewKeys # prev_group_keys
    /\ rows_destroyed # {}
    /\ rows_created # {}
    /\ DOMAIN rows = NewKeys

\* The live _fetch_pids threads whose wmctrl query has ended.
PastBulk == { i \in 1..Len(fetchers) : fetch_local[i].bulk # "none" }

\* C22 as stated: a refresh goes on to the fallback exactly when the bulk
\* query gave no (window, pid) pair.
C22_FallbackIffNoPair ==
    \A i \in PastBulk : fetch_local[i].fallback <=> (fetch_local[i].pairs = {})

\* C22, amended: a refresh goes on to the fallback exactly when the bulk
\* query failed (tool missing, timeout, exit code not 0); when it exited
\* with 0, the positive pids of its lines alone become window_pids, even
\* when there are none, and the fallback is not run.
C22_FallbackIffBulkFailed ==
    \A i \in 1..Len(fetchers) :
        /\ fetchers[i] \in { "xprop", "xprop_loop" } => fetch_local[i].fallback
        /\ fetchers[i] = "wmctrl_loop" => ~fetch_local[i].fallback
        /\ fetch_local[i].bulk # "none" =>
              (fetch_local[i].fallback <=> (fetch_local[i].bulk = "failed"))
        /\ (fetchers[i] = "finally" /\ fetch_local[i].bulk = "ok") =>
              /\ ~fetch_local[i].fallback
              /\ window_pids = WmctrlPids(fetch_local[i].pairs)

\* A refresh at its finally block whose wmctrl exited with 0 and printed no
\* positive pid: the fallback was not run and the empty set has replaced a
\* non-empty window_pids.
C22_Witness ==
    \E i \in 1..Len(fetchers) :
        /\ fetchers[i] = "finally"
        /\ fetch_local[i].bulk = "ok"
        /\ WmctrlPids(fetch_local[i].pairs) = {}
        /\ ~fetch_local[i].fallback
        /\ fetch_local[i].old # {}
        /\ window_pids = {}

\* The group a frame's single sample i makes on its own.
GroupOfSample(i) ==
    [pids |-> << Parsed[process_data[i]].pid >>,
     cpu |-> Parsed[process_data[i]].cpu,
     mem |-> Parsed[process_data[i]].mem,
     state |-> process_data[i][3],
     details |-> Put(EmptyDict, Parsed[process_data[i]].pid,
                     [cpu |-> Parsed[process_data[i]].cpu,
                      mem |-> Parsed[process_data[i]].mem])]

\* A frame of two samples of one name that update_data has classified
\* differently, sample t as an app and sample f as background.
SplitFrame(t, f) ==
    /\ ui = "idle"
    /\ Len(process_data) = 2
    /\ Len(classified) = 2
    /\ process_data[1][2] = process_data[2][2]
    /\ classified[t]
    /\ ~classified[f]

\* C23: when the two samples of a frame have one name and are classified
\* differently, apps and background each hold a group of that name with the
\* pid, cpu and mem of its own sample only, and rows has a row for each of
\* the two keys, showing its group.
C23_SameNameSplit ==
    \A t, f \in 1..2 :
        SplitFrame(t, f) =>
            LET name == process_data[1][2]
            IN  /\ DOMAIN apps = { name }
                /\ DOMAIN background = { name }
                /\ apps[name] = GroupOfSample(t)
                /\ background[name] = GroupOfSample(f)
                /\ DOMAIN rows = { << "app", name >>, << "bg", name >> }
                /\ ShowsGroup(rows[<< "app", name >>], apps[name])
                /\ ShowsGroup(rows[<< "bg", name >>], background[name])

\* A frame of pids 1 and 2, both named foo, of which one owns a window:
\* two groups and two rows.
C23_Witness ==
    /\ \E t, f \in 1..2 : SplitFrame(t, f)
    /\ Parsed[process_data[1]].pid # Parsed[process_data[2]].pid
    /\ Cardinality(DOMAIN rows) = 2
    /\ Cardinality(DOMAIN apps) = 1
    /\ DOMAIN apps = DOMAIN background

\* The names of the signals _on_close has sent, in order.
SignalsSent == [i \in 1..Len(late.signals) |-> late.signals[i].sig]

\* C24: _on_close sends SIGTERM with the running flag already clear, waits,
\* and sends SIGKILL after it exactly when the backend has not exited within
\* the wait; no signal is sent before _on_close, SIGKILL never comes first,
\* and once _on_close has returned the backend has exited or been killed.
C24_ShutdownSequence ==
    /\ SignalsSent \in { << >>, << "SIGTERM" >>, << "SIGTERM", "SIGKILL" >> }
    /\ \A i \in 1..Len(late.signals) : ~late.signals[i].running
    /\ ui \notin { "closing", "gone" } =>
          SignalsSent = << >> /\ proc = "running" /\ running
    /\ ui = "closing" =>
          SignalsSent = << "SIGTERM" >> /\ late.wait = "none" /\ ~running
    /\ ui = "gone" =>
          /\ ~running
          /\ proc # "running"
          /\ late.wait \in { "exited", "timeout" }
          /\ (late.wait = "exited") <=> (SignalsSent = << "SIGTERM" >> /\ proc = "exited")
          /\ (late.wait = "timeout") <=>
                (SignalsSent = << "SIGTERM", "SIGKILL" >> /\ proc = "killed")

\* The window is closed and the backend did not exit within the wait: it was
\* sent SIGTERM, then SIGKILL.
C24_Witness ==
    /\ ui = "gone"
    /\ late.wait = "timeout"
    /\ SignalsSent = << "SIGTERM", "SIGKILL" >>
    /\ proc = "killed"

\* An iteration of update_data's loop: one _classify_process call.
IsClassifyCall == classified' # classified /\ classified' # << >>

C25_Step ==
    (/\ IsClassifyCall
     /\ last_call.pid # 0
     /\ last_call'.pid = last_call.pid
     /\ last_call'.name = last_call.name
     /\ ~wp_changed
     /\ last_call.pid \in DOMAIN classification_cache)
    => last_call'.ret = last_call.ret

\* C25: of two consecutive _classify_process calls with the same pid and
\* name, between which window_pids was given no other value and the pid's
\* cache entry was not purged, the second returns what the first returned.
C25_StableClassification == [][C25_Step]_vars

C28_Step ==
    (IsClassifyCall /\ classified # << >>) => ~wp_changed

\* C28: every sample of a frame after the first is classified with
\* window_pids as the sample before it saw it: no refresh thread has given
\* window_pids another value between two iterations of update_data's loop.
C28_FrameSnapshot == [][C28_Step]_vars

C29_Step ==
    ~window_pid_thread_running =>
        /\ window_pid_thread_running'
        /\ Len(fetchers') = Len(fetchers) + 1
        /\ fetchers'[Len(fetchers')] = "wmctrl"
        /\ last_refresh' = "started"

\* C29: whenever the in-flight flag is set it is cleared later, whichever
\* way the refresh thread goes, and with the flag clear the next thing that
\* happens is an update_window_pids call that starts a new thread.
C29_RefreshLiveness ==
    /\ window_pid_thread_running ~> ~window_pid_thread_running
    /\ \A pos \in { "wmctrl", "wmctrl_loop", "xprop", "xprop_loop", "finally" } :
          (\E i \in 1..Len(fetchers) : fetchers[i] = pos) ~> (fetchers = << >>)
    /\ [][C29_Step]_vars

\* A refresh that found no pid has ended: the flag is clear, no thread is
\* left and window_pids is the empty set that refresh assigned.
C29_Witness ==
    /\ ~window_pid_thread_running
    /\ fetchers = << >>
    /\ last_refresh = "started"
    /\ last_result = {}
    /\ window_pids = {}

\* A frame with a sample whose pid, cpu or mem is not a number, and an
\* update_data call that ended before its loop had gone through the frame.
HasBadSample(data) == \E i \in 1..Len(data) : ~IsNumeric(data[i])
UpdateAborted == ui = "idle" /\ process_data # << >> /\ idx <= Len(process_data)

\* The decoder appends the six fields of every line of ErrLines to its
\* buffer as they are and schedules nothing.
C30_Accepted ==
    \A l \in ErrLines :
        LET d == DecodeLine(Decoder(<< >>, << >>, FALSE), l)
        IN  /\ Len(Fields[l]) = 6
            /\ ~IsNumeric(Fields[l])
            /\ d.frame = << Fields[l] >>
            /\ d.out = << >>

C30_Idle ==
    (ui = "idle" /\ process_data # << >>) =>
        /\ UpdateAborted <=> HasBadSample(process_data)
        /\ ~HasBadSample(process_data) =>
              /\ SumLaw(apps, TRUE) /\ SumLaw(background, FALSE)
              /\ DOMAIN rows = NewKeys
              /\ DOMAIN process_groups = DOMAIN apps \cup DOMAIN background
              /\ \A key \in DOMAIN rows : ShowsGroup(rows[key], GroupOf(key))

C30_Step ==
    HasBadSample(process_data') =>
        /\ rows' = rows
        /\ process_groups' = process_groups
        /\ ui' = "idle" => update_errors' = update_errors + 1

\* C30: the decoder accepts a line of six fields whatever they hold; an
\* update_data call on a frame with a sample whose pid, cpu or mem is not a
\* number ends with an error and from its start to its end rows and
\* process_groups stay what the frame before left; every update_data call
\* on a frame of numeric samples, one that follows such an error included,
\* ends with the frame aggregated and rows reconciled with it.
C30_BadSampleAborts == C30_Accepted /\ []C30_Idle /\ [][C30_Step]_vars

\* The first frame held a sample that is not numeric and update_data raised;
\* the second frame, of numeric samples, has been aggregated and reconciled.
C30_Witness ==
    /\ ui = "idle"
    /\ cache_cleanup_counter = 2
    /\ update_errors = 1
    /\ ~HasBadSample(process_data)
    /\ rows # EmptyDict
    /\ DOMAIN rows = NewKeys
    /\ prev_row_keys = {}

\* C26 as stated: selected_row is None or a row of rows, and End task and
\* Force kill have only signalled the pids of a row that was one of rows.
C26_SelectionNeverDangles ==
    /\ selected_row # NoRow =>
          ~selected_row.destroyed /\ selected_row.key \in DOMAIN rows
    /\ last_kill.fn # "none" => last_kill.in_rows

C27_Step ==
    last_click' # last_click =>
        /\ selected_row' = RowRef(last_click'.key)
        /\ last_click'.key \in marked'
        /\ (selected_row # NoRow /\ selected_row.key # last_click'.key) =>
              selected_row.key \notin marked'
        /\ end_btn' = "normal"

\* C27 as stated: a click on a row of rows makes it the selected row, sets
\* its flag, clears the flag of the row selected before and enables the End
\* task button, and at most one row of rows has its flag set.
C27_SingleSelection == [][C27_Step]_vars /\ [](Cardinality(marked) <= 1)

====
